---------------------------- MODULE Spec2Model ----------------------------
(* Model of src/headless_tools/gl_nullify.c: an LD_PRELOAD library that   *)
(* replaces OpenGL entry points by stubs.  The only program state is the  *)
(* static counter fake_id (line 26).  Every intercepted function is one   *)
(* action.  The record `last` holds the most recent call: its arguments,  *)
(* the value of fake_id when it was entered, the values it stored through *)
(* its output pointer and the value it returned.  issued, allocReqs,      *)
(* delMark and built are history variables; pc, reg, todo, nDone and      *)
(* overlap belong to the two-thread specification SpecMT.                 *)
EXTENDS Integers, Sequences, FiniteSets

VARIABLES fake_id, issued, allocReqs, delMark, built, last,
          pc, reg, todo, nDone, overlap

vars == <<fake_id, issued, allocReqs, delMark, built, last,
          pc, reg, todo, nDone, overlap>>

mtVars == <<pc, reg, todo, nDone, overlap>>

histVars == <<allocReqs, delMark, built, last>>

-----------------------------------------------------------------------------
(* Bounds of the model.                                                    *)

\* Width in bits of `unsigned int` in the model (32 in the build; TLC's
\* integers are 32-bit signed, so the width is scaled down).
UINT_BITS == 3

\* Most identifiers handed out in one behaviour.
MaxIssued == 9

\* Most calls to allocating functions in one behaviour.
MaxRequests == 4

\* Largest count n passed to a glGen* function.
MaxGenCount == 3

\* Most identifiers one thread obtains in SpecMT.
MaxThreadIds == 3

-----------------------------------------------------------------------------
(* Constants of the program.                                               *)

GL_VENDOR == 7936               \* 0x1F00
GL_RENDERER == 7937             \* 0x1F01
GL_VERSION == 7938              \* 0x1F02
GL_EXTENSIONS == 7939           \* 0x1F03
GL_FRAMEBUFFER_COMPLETE == 36053 \* 0x8CD5
GL_COMPILE_STATUS == 35713      \* 0x8B81
GL_LINK_STATUS == 35714         \* 0x8B82
GL_NO_ERROR == 0

UINT_MOD == 2 ^ UINT_BITS

UINT_MAX == UINT_MOD - 1

-----------------------------------------------------------------------------
(* Inputs.                                                                 *)

\* Counts n given to glGen* and glDelete* (an int: may be negative).
GenCounts == -1 .. MaxGenCount

DelCounts == {0, 1}

\* Identifier arguments (unsigned int): issued or never issued.
ObjArgs == {0, 1, 2, UINT_MAX}

\* pname arguments of the integer queries.
Pnames == {GL_COMPILE_STATUS, GL_LINK_STATUS, 0}

\* name arguments of glGetString.
Names == {GL_VENDOR, GL_RENDERER, GL_VERSION, GL_EXTENSIONS, 0, GL_EXTENSIONS + 1}

\* Enumeration and size arguments the stubs only log.
Enums == {0, 1}

\* An output pointer: TRUE when it is non-null.
Pointers == BOOLEAN

\* A `const char*` result.
CStr(s) == [null |-> FALSE, s |-> s]

NullPtr == [null |-> TRUE, s |-> ""]

GenFns == {"glGenTextures", "glGenBuffers", "glGenVertexArrays", "glGenFramebuffers"}

CreateFns == {"glCreateShader", "glCreateProgram"}

AllocFns == GenFns \cup CreateFns

DeleteFns == {"glDeleteTextures", "glDeleteBuffers", "glDeleteVertexArrays",
              "glDeleteFramebuffers", "glDeleteShader", "glDeleteProgram"}

BuildFns == {"glShaderSource", "glCompileShader", "glAttachShader", "glLinkProgram"}

QueryFns == {"glGetIntegerv", "glGetString", "glGetError", "glGetShaderiv",
             "glGetProgramiv", "glCheckFramebufferStatus"}

Threads == {"t1", "t2"}

-----------------------------------------------------------------------------
(* The record of a call.                                                   *)

CallRec(fn, n, obj, pname, params, written, ret) ==
    [fn |-> fn, k |-> fake_id, n |-> n, obj |-> obj, pname |-> pname,
     params |-> params, written |-> written, ret |-> ret]

Init ==
    /\ fake_id = 1
    /\ issued = <<>>
    /\ allocReqs = 0
    /\ delMark = 0
    /\ built = FALSE
    /\ last = [fn |-> "none", k |-> 1, n |-> 0, obj |-> 0, pname |-> 0,
               params |-> TRUE, written |-> <<>>, ret |-> <<>>]
    /\ pc = [t \in Threads |-> "idle"]
    /\ reg = [t \in Threads |-> 0]
    /\ todo = [t \in Threads |-> 0]
    /\ nDone = [t \in Threads |-> 0]
    /\ overlap = FALSE

-----------------------------------------------------------------------------
(* The counter.                                                            *)

\* `fake_id++` on an unsigned int: the value stored back into fake_id.
PostInc(id) == (id + 1) % UINT_MOD

\* for (int i = 0; i < n; i++) out[i] = fake_id++;
\* id is the counter, out the slots written so far, in order.
RECURSIVE GenLoop(_, _, _, _)
GenLoop(i, n, id, out) ==
    IF i < n THEN GenLoop(i + 1, n, PostInc(id), Append(out, id))
             ELSE [id |-> id, out |-> out]

\* The body shared by the four glGen* functions.
Gen(fn, n) ==
    LET r == GenLoop(0, n, fake_id, <<>>) IN
    /\ allocReqs < MaxRequests
    /\ Len(issued) + Len(r.out) <= MaxIssued
    /\ fake_id' = r.id
    /\ issued' = issued \o r.out
    /\ allocReqs' = allocReqs + 1
    /\ last' = CallRec(fn, n, 0, 0, TRUE, r.out, <<>>)
    /\ UNCHANGED <<delMark, built, mtVars>>

\* The mutant: the identifier is returned and the counter left alone.
Create_NoInc(fn) ==
    /\ allocReqs < MaxRequests
    /\ Len(issued) + 1 <= MaxIssued
    /\ fake_id' = fake_id
    /\ issued' = Append(issued, fake_id)
    /\ allocReqs' = allocReqs + 1
    /\ last' = CallRec(fn, 1, 0, 0, TRUE, <<>>, <<fake_id>>)
    /\ UNCHANGED <<delMark, built, mtVars>>

\* return fake_id++;  (glCreateShader, glCreateProgram)
Create(fn) ==
    /\ allocReqs < MaxRequests
    /\ Len(issued) + 1 <= MaxIssued
    /\ fake_id' = PostInc(fake_id)
    /\ issued' = Append(issued, fake_id)
    /\ allocReqs' = allocReqs + 1
    /\ last' = CallRec(fn, 1, 0, 0, TRUE, <<>>, <<fake_id>>)
    /\ UNCHANGED <<delMark, built, mtVars>>

\* A function whose body is only the LOG line.
NoOp(fn, obj) ==
    /\ last' = CallRec(fn, 0, obj, 0, TRUE, <<>>, <<>>)
    /\ UNCHANGED <<fake_id, issued, allocReqs, delMark, built, mtVars>>

\* A delete function: only the LOG line.  delMark remembers how many
\* identifiers had been issued when it was called.
Delete(fn, n, obj) ==
    /\ last' = CallRec(fn, n, obj, 0, TRUE, <<>>, <<>>)
    /\ delMark' = Len(issued)
    /\ UNCHANGED <<fake_id, issued, allocReqs, built, mtVars>>

\* glShaderSource, glCompileShader, glAttachShader, glLinkProgram: only the
\* LOG line.  built remembers that one of them was called.
Build(fn, obj) ==
    /\ last' = CallRec(fn, 0, obj, 0, TRUE, <<>>, <<>>)
    /\ built' = TRUE
    /\ UNCHANGED <<fake_id, issued, allocReqs, delMark, mtVars>>

\* A query: the values stored through the output pointer and the result.
Query(fn, obj, pname, params, written, ret) ==
    /\ last' = CallRec(fn, 0, obj, pname, params, written, ret)
    /\ UNCHANGED <<fake_id, issued, allocReqs, delMark, built, mtVars>>

-----------------------------------------------------------------------------
(* Draw calls, buffer swap, clear.                                         *)

glDrawArrays(mode, first, count) == NoOp("glDrawArrays", 0)

glDrawElements(mode, count, type) == NoOp("glDrawElements", 0)

glDrawArraysInstanced(mode, count, instancecount) == NoOp("glDrawArraysInstanced", 0)

glDrawElementsInstanced(mode, count, instancecount) == NoOp("glDrawElementsInstanced", 0)

glXSwapBuffers == NoOp("glXSwapBuffers", 0)

glClear(mask) == NoOp("glClear", 0)

glClearColor(r, g) == NoOp("glClearColor", 0)

-----------------------------------------------------------------------------
(* Textures.                                                               *)

glGenTextures(n) == Gen("glGenTextures", n)

glDeleteTextures(n, textures) == Delete("glDeleteTextures", n, textures)

\* The mutant: binding allocates, as a lazily-creating bind would.
glBindTexture_Allocates(target, texture) ==
    /\ last' = CallRec("glBindTexture", 0, texture, 0, TRUE, <<>>, <<>>)
    /\ fake_id' = PostInc(fake_id)
    /\ UNCHANGED <<issued, allocReqs, delMark, built, mtVars>>

glBindTexture(target, texture) == NoOp("glBindTexture", texture)

glTexImage2D(target, width, height) == NoOp("glTexImage2D", 0)

glTexSubImage2D(target, width, height) == NoOp("glTexSubImage2D", 0)

-----------------------------------------------------------------------------
(* Buffers.                                                                *)

glGenBuffers(n) == Gen("glGenBuffers", n)

glDeleteBuffers(n, buffers) == Delete("glDeleteBuffers", n, buffers)

glBindBuffer(target, buffer) == NoOp("glBindBuffer", buffer)

glBufferData(target, size) == NoOp("glBufferData", 0)

glBufferSubData(target, size) == NoOp("glBufferSubData", 0)

-----------------------------------------------------------------------------
(* Shaders and programs.                                                   *)

glCreateShader(type) == Create("glCreateShader")

glDeleteShader(shader) == Delete("glDeleteShader", 1, shader)

glShaderSource(shader, count) == Build("glShaderSource", shader)

glCompileShader(shader) == Build("glCompileShader", shader)

glCreateProgram == Create("glCreateProgram")

glDeleteProgram(program) == Delete("glDeleteProgram", 1, program)

glAttachShader(program, shader) == Build("glAttachShader", program)

glLinkProgram(program) == Build("glLinkProgram", program)

glUseProgram(program) == NoOp("glUseProgram", program)

-----------------------------------------------------------------------------
(* Vertex arrays.                                                          *)

glGenVertexArrays(n) == Gen("glGenVertexArrays", n)

glDeleteVertexArrays(n, arrays) == Delete("glDeleteVertexArrays", n, arrays)

glBindVertexArray(array) == NoOp("glBindVertexArray", array)

-----------------------------------------------------------------------------
(* State changes.                                                          *)

glEnable(cap) == NoOp("glEnable", 0)

glDisable(cap) == NoOp("glDisable", 0)

glBlendFunc(sfactor, dfactor) == NoOp("glBlendFunc", 0)

glViewport(x, width) == NoOp("glViewport", 0)

glScissor(x, width) == NoOp("glScissor", 0)

-----------------------------------------------------------------------------
(* Framebuffers.                                                           *)

glGenFramebuffers(n) == Gen("glGenFramebuffers", n)

glDeleteFramebuffers(n, framebuffers) == Delete("glDeleteFramebuffers", n, framebuffers)

glBindFramebuffer(target, framebuffer) == NoOp("glBindFramebuffer", framebuffer)

\* return 0x8CD5;
CheckFramebufferStatusResult(target) == GL_FRAMEBUFFER_COMPLETE

glCheckFramebufferStatus(target) ==
    Query("glCheckFramebufferStatus", 0, target, TRUE, <<>>,
          <<CheckFramebufferStatusResult(target)>>)

-----------------------------------------------------------------------------
(* Queries.                                                                *)

\* The mutant: the null check is missing for pname 0 and 0 is written.
GetIntegervWrites_Unchecked(pname, params) ==
    IF params \/ pname = 0 THEN <<0>> ELSE <<>>

\* if (params) *params = 1;
GetIntegervWrites(pname, params) == IF params THEN <<1>> ELSE <<>>

glGetIntegerv(pname, params) ==
    Query("glGetIntegerv", 0, pname, params, GetIntegervWrites(pname, params), <<>>)

\* The mutant: the fall-through default returns a null pointer.
GetStringResult_NullDefault(name) ==
    CASE name = GL_VENDOR -> CStr("GL Nullify")
      [] name = GL_RENDERER -> CStr("Null Renderer")
      [] name = GL_VERSION -> CStr("4.5")
      [] name = GL_EXTENSIONS -> CStr("")
      [] OTHER -> NullPtr

\* switch (name) { case 0x1F00: ... } return "";
GetStringResult(name) ==
    CASE name = GL_VENDOR -> CStr("GL Nullify")
      [] name = GL_RENDERER -> CStr("Null Renderer")
      [] name = GL_VERSION -> CStr("4.5")
      [] name = GL_EXTENSIONS -> CStr("")
      [] OTHER -> CStr("")

glGetString(name) ==
    Query("glGetString", 0, name, TRUE, <<>>, <<GetStringResult(name)>>)

\* return 0;
GetErrorResult == GL_NO_ERROR

glGetError == Query("glGetError", 0, 0, TRUE, <<>>, <<GetErrorResult>>)

\* The mutant: every status of a shader is reported as 1.
GetShaderivWrites_AlwaysOne(pname, params) == IF params THEN <<1>> ELSE <<>>

\* if (params) { if (pname == 0x8B81) *params = 1; else *params = 0; }
GetShaderivWrites(pname, params) ==
    IF params THEN (IF pname = GL_COMPILE_STATUS THEN <<1>> ELSE <<0>>) ELSE <<>>

glGetShaderiv(shader, pname, params) ==
    Query("glGetShaderiv", shader, pname, params, GetShaderivWrites(pname, params), <<>>)

\* The mutant: the link status is tested against the compile status' name.
GetProgramivWrites_WrongName(pname, params) ==
    IF params THEN (IF pname = GL_COMPILE_STATUS THEN <<1>> ELSE <<0>>) ELSE <<>>

\* if (params) { if (pname == 0x8B82) *params = 1; else *params = 0; }
GetProgramivWrites(pname, params) ==
    IF params THEN (IF pname = GL_LINK_STATUS THEN <<1>> ELSE <<0>>) ELSE <<>>

glGetProgramiv(program, pname, params) ==
    Query("glGetProgramiv", program, pname, params, GetProgramivWrites(pname, params), <<>>)

-----------------------------------------------------------------------------
(* The single-threaded program: any call, in any order.                    *)

Next ==
    \/ \E mode \in Enums, first \in Enums, count \in Enums : glDrawArrays(mode, first, count)
    \/ \E mode \in Enums, count \in Enums, type \in Enums : glDrawElements(mode, count, type)
    \/ \E mode \in Enums, count \in Enums, ic \in Enums : glDrawArraysInstanced(mode, count, ic)
    \/ \E mode \in Enums, count \in Enums, ic \in Enums : glDrawElementsInstanced(mode, count, ic)
    \/ glXSwapBuffers
    \/ \E mask \in Enums : glClear(mask)
    \/ \E r \in Enums, g \in Enums : glClearColor(r, g)
    \/ \E n \in GenCounts : glGenTextures(n)
    \/ \E n \in DelCounts, textures \in ObjArgs : glDeleteTextures(n, textures)
    \/ \E target \in Enums, texture \in ObjArgs : glBindTexture(target, texture)
    \/ \E target \in Enums, w \in Enums, h \in Enums : glTexImage2D(target, w, h)
    \/ \E target \in Enums, w \in Enums, h \in Enums : glTexSubImage2D(target, w, h)
    \/ \E n \in GenCounts : glGenBuffers(n)
    \/ \E n \in DelCounts, buffers \in ObjArgs : glDeleteBuffers(n, buffers)
    \/ \E target \in Enums, buffer \in ObjArgs : glBindBuffer(target, buffer)
    \/ \E target \in Enums, size \in Enums : glBufferData(target, size)
    \/ \E target \in Enums, size \in Enums : glBufferSubData(target, size)
    \/ \E type \in Enums : glCreateShader(type)
    \/ \E shader \in ObjArgs : glDeleteShader(shader)
    \/ \E shader \in ObjArgs, count \in Enums : glShaderSource(shader, count)
    \/ \E shader \in ObjArgs : glCompileShader(shader)
    \/ glCreateProgram
    \/ \E program \in ObjArgs : glDeleteProgram(program)
    \/ \E program \in ObjArgs, shader \in ObjArgs : glAttachShader(program, shader)
    \/ \E program \in ObjArgs : glLinkProgram(program)
    \/ \E program \in ObjArgs : glUseProgram(program)
    \/ \E n \in GenCounts : glGenVertexArrays(n)
    \/ \E n \in DelCounts, arrays \in ObjArgs : glDeleteVertexArrays(n, arrays)
    \/ \E array \in ObjArgs : glBindVertexArray(array)
    \/ \E cap \in Enums : glEnable(cap)
    \/ \E cap \in Enums : glDisable(cap)
    \/ \E sfactor \in Enums, dfactor \in Enums : glBlendFunc(sfactor, dfactor)
    \/ \E x \in Enums, width \in Enums : glViewport(x, width)
    \/ \E x \in Enums, width \in Enums : glScissor(x, width)
    \/ \E n \in GenCounts : glGenFramebuffers(n)
    \/ \E n \in DelCounts, framebuffers \in ObjArgs : glDeleteFramebuffers(n, framebuffers)
    \/ \E target \in Enums, framebuffer \in ObjArgs : glBindFramebuffer(target, framebuffer)
    \/ \E target \in Enums : glCheckFramebufferStatus(target)
    \/ \E pname \in Pnames, params \in Pointers : glGetIntegerv(pname, params)
    \/ \E name \in Names : glGetString(name)
    \/ glGetError
    \/ \E shader \in ObjArgs, pname \in Pnames, params \in Pointers : glGetShaderiv(shader, pname, params)
    \/ \E program \in ObjArgs, pname \in Pnames, params \in Pointers : glGetProgramiv(program, pname, params)

Spec == Init /\ [][Next]_vars

-----------------------------------------------------------------------------
(* Two threads of the host process calling the allocating functions.  The *)
(* counter is a plain static: `fake_id++` is a load of fake_id into a     *)
(* register followed by a store of the register plus one, and a step of   *)
(* the other thread may fall between the two.                             *)

\* The number of identifiers a call asks for.
CallCount(fn, n) == IF fn \in GenFns THEN n ELSE 1

\* Thread t enters an allocating function.
T_Call(t, fn, n) ==
    /\ pc[t] = "idle"
    /\ nDone[t] + CallCount(fn, n) <= MaxThreadIds
    /\ IF CallCount(fn, n) > 0
          THEN /\ pc' = [pc EXCEPT ![t] = "read"]
               /\ todo' = [todo EXCEPT ![t] = CallCount(fn, n)]
          ELSE UNCHANGED <<pc, todo>>
    /\ UNCHANGED <<fake_id, issued, reg, nDone, overlap, histVars>>

\* The mutant: the counter is kept in the register and not loaded again.
T_Read_Cached(t) ==
    /\ pc[t] = "read"
    /\ pc' = [pc EXCEPT ![t] = "write"]
    /\ overlap' = (overlap \/ \E u \in Threads \ {t} : pc[u] = "write")
    /\ UNCHANGED <<fake_id, issued, reg, todo, nDone, histVars>>

\* The load of `fake_id++`.  overlap records that the load fell between the
\* other thread's load and store.
T_Read(t) ==
    /\ pc[t] = "read"
    /\ reg' = [reg EXCEPT ![t] = fake_id]
    /\ pc' = [pc EXCEPT ![t] = "write"]
    /\ overlap' = (overlap \/ \E u \in Threads \ {t} : pc[u] = "write")
    /\ UNCHANGED <<fake_id, issued, todo, nDone, histVars>>

\* The store of `fake_id++`; the loaded value is the identifier handed out.
T_Write(t) ==
    /\ pc[t] = "write"
    /\ fake_id' = PostInc(reg[t])
    /\ issued' = Append(issued, reg[t])
    /\ nDone' = [nDone EXCEPT ![t] = @ + 1]
    /\ todo' = [todo EXCEPT ![t] = @ - 1]
    /\ pc' = [pc EXCEPT ![t] = IF todo[t] - 1 > 0 THEN "read" ELSE "idle"]
    /\ UNCHANGED <<reg, overlap, histVars>>

NextMT ==
    \/ \E t \in Threads, fn \in AllocFns, n \in GenCounts : T_Call(t, fn, n)
    \/ \E t \in Threads : T_Read(t)
    \/ \E t \in Threads : T_Write(t)

SpecMT == Init /\ [][NextMT]_vars

-----------------------------------------------------------------------------
(* Properties.                                                             *)

Range(s) == {s[i] : i \in 1 .. Len(s)}

Distinct(s) == \A i, j \in 1 .. Len(s) : i # j => s[i] # s[j]

\* The identifiers the last call handed out, in order.
HandedOut ==
    IF last.fn \in GenFns THEN last.written
    ELSE IF last.fn \in CreateFns THEN last.ret
    ELSE <<>>

AllIdle == \A t \in Threads : pc[t] = "idle"

\* C1: every identifier issued so far is nonzero and pairwise distinct from
\* every other identifier issued, for any number of allocations.
C1_IdsNonzeroDistinct ==
    /\ \A i \in 1 .. Len(issued) : issued[i] # 0
    /\ Distinct(issued)

\* C2: a generate call with count n entered at counter k writes k, k+1, ...,
\* k+n-1 into slots 0..n-1 and leaves the counter at k+n (nothing and k when
\* n <= 0); a create call entered at k returns k and leaves k+1.
C2_AllocPostcondition ==
    /\ (last.fn \in GenFns /\ last.n > 0) =>
          /\ last.written = [i \in 1 .. last.n |-> last.k + i - 1]
          /\ fake_id = last.k + last.n
    /\ (last.fn \in GenFns /\ last.n <= 0) =>
          /\ last.written = <<>>
          /\ fake_id = last.k
    /\ last.fn \in CreateFns =>
          /\ last.ret = <<last.k>>
          /\ fake_id = last.k + 1

\* C3: in every reachable state the status queries report success:
\* glGetShaderiv(0x8B81) and glGetProgramiv(0x8B82) write 1,
\* glCheckFramebufferStatus returns 0x8CD5 and glGetError returns 0.
C3_StatusQueriesSucceed ==
    /\ (last.fn = "glGetShaderiv" /\ last.pname = 35713 /\ last.params) =>
          last.written = <<1>>
    /\ (last.fn = "glGetProgramiv" /\ last.pname = 35714 /\ last.params) =>
          last.written = <<1>>
    /\ last.fn = "glCheckFramebufferStatus" => last.ret = <<36053>>
    /\ last.fn = "glGetError" => last.ret = <<0>>

\* C3's case: the link status of a program is asked for and reported as 1
\* although no source, compile, attach or link call was ever made.
C3_Witness ==
    /\ last.fn = "glGetProgramiv"
    /\ last.pname = 35714
    /\ last.params
    /\ last.written = <<1>>
    /\ last.obj \in Range(issued)
    /\ ~built

\* C4: a delete call leaves the counter unchanged, and no identifier issued
\* before a delete call is handed out by a later allocating call.
C4_DeleteNeverRecycles ==
    /\ last.fn \in DeleteFns => fake_id = last.k
    /\ \A i \in 1 .. delMark : \A j \in delMark + 1 .. Len(issued) :
          issued[i] # issued[j]

\* C5 as stated: the counter is 1 plus the number of allocation requests
\* made so far, and it never decreases.
C5_CounterCountsRequests ==
    /\ fake_id = 1 + allocReqs
    /\ fake_id >= last.k

\* C5 as amended: the counter is 1 plus the number of identifiers issued so
\* far, reduced modulo 2^w, and a call lowers it only when the increments of
\* that call pass UINT_MAX.
C5_CounterCountsIdentifiers ==
    /\ fake_id = (1 + Len(issued)) % UINT_MOD
    /\ fake_id >= last.k \/ last.k + Len(HandedOut) > UINT_MAX

\* C5's case: one request of count 3 moved the counter by 3, after a request
\* made through another allocating function.
C5_Witness ==
    /\ last.fn = "glGenBuffers"
    /\ last.n = 3
    /\ fake_id = last.k + 3
    /\ allocReqs = 2
    /\ Len(issued) = 4

\* C6: glGetString returns "GL Nullify", "Null Renderer", "4.5" and "" for
\* 0x1F00..0x1F03 and "" for every other name, never a null pointer, in
\* every state.
C6_GetStringTable ==
    last.fn = "glGetString" =>
        /\ Len(last.ret) = 1
        /\ ~last.ret[1].null
        /\ last.ret[1].s = (CASE last.pname = 7936 -> "GL Nullify"
                              [] last.pname = 7937 -> "Null Renderer"
                              [] last.pname = 7938 -> "4.5"
                              [] OTHER -> "")

\* C6's case: an unrecognized name is asked for after identifiers were
\* issued.
C6_Witness ==
    /\ last.fn = "glGetString"
    /\ last.pname = 7940
    /\ last.ret = <<CStr("")>>
    /\ Len(issued) > 0

\* C7: glGetIntegerv writes exactly 1 through a non-null pointer, for every
\* pname; with a null pointer glGetIntegerv, glGetShaderiv and glGetProgramiv
\* write nothing and leave the counter unchanged.
C7_NullTolerantQueries ==
    /\ (last.fn = "glGetIntegerv" /\ last.params) => last.written = <<1>>
    /\ (last.fn \in {"glGetIntegerv", "glGetShaderiv", "glGetProgramiv"}
          /\ ~last.params) =>
          /\ last.written = <<>>
          /\ last.ret = <<>>
          /\ fake_id = last.k

\* C7's case: glGetIntegerv was called with a null pointer.
C7_Witness ==
    /\ last.fn = "glGetIntegerv"
    /\ ~last.params
    /\ last.pname = 0
    /\ last.written = <<>>

\* C8: a call to anything but the six allocating functions leaves the
\* counter unchanged and is accepted in every state; the identifiers an
\* allocating call hands out are a function of the number of identifiers
\* issued before it.
C8_OnlyAllocatorsMoveCounter ==
    /\ last.fn \notin AllocFns => fake_id = last.k
    /\ \A i \in 1 .. Len(HandedOut) :
          HandedOut[i] = (Len(issued) - Len(HandedOut) + i) % UINT_MOD
    /\ \A texture \in ObjArgs : ENABLED glBindTexture(0, texture)
    /\ ENABLED glXSwapBuffers

\* C8's case: a texture that was never generated is bound after identifiers
\* were issued.
C8_Witness ==
    /\ last.fn = "glBindTexture"
    /\ last.obj = UINT_MAX
    /\ last.obj \notin Range(issued)
    /\ Len(issued) > 0
    /\ fake_id = last.k

\* C9: glGetShaderiv with a pname other than 0x8B81 and glGetProgramiv with
\* a pname other than 0x8B82 write 0 through a non-null pointer, whatever
\* the shader or program and whatever came before.
C9_OtherPnamesWriteZero ==
    /\ (last.fn = "glGetShaderiv" /\ last.pname # 35713 /\ last.params) =>
          last.written = <<0>>
    /\ (last.fn = "glGetProgramiv" /\ last.pname # 35714 /\ last.params) =>
          last.written = <<0>>

\* C9's case: glGetShaderiv is asked for the link status.
C9_Witness ==
    /\ last.fn = "glGetShaderiv"
    /\ last.pname = 35714
    /\ last.params
    /\ last.written = <<0>>

=============================================================================
